---------------------------- MODULE Spec2Model ----------------------------
(* rsdbgen (src/main.rs): reads the column catalog of a PostgreSQL schema  *)
(* and emits, per table, a full-row struct, an input-row struct and an     *)
(* insert function.                                                        *)
(*                                                                         *)
(* Representation of text.  Identifiers read from the catalog (table and   *)
(* column names) are sequences of one-character strings, so that text      *)
(* built from them can be taken apart again.  The literal pieces of a      *)
(* format string ("row.", ", ", "INSERT INTO ", ...) are single elements   *)
(* of such a sequence.  Type names, which the program only compares and    *)
(* wraps as a whole, are plain strings.                                    *)
EXTENDS Integers, Sequences, FiniteSets, TLC

VARIABLES pc, tables, rest, cur, groups, scope, stdout, err

vars == <<pc, tables, rest, cur, groups, scope, stdout, err>>

(* ------------------------------ bounds --------------------------------- *)

\* Longest column stream the catalog query returns in the model.
MaxRows == 3

(* --------------------------- identifiers ------------------------------- *)

\* The two column names the emitters leave out (main.rs:69, main.rs:167).
ID == <<"i", "d">>

CREATED_AT == <<"c", "r", "e", "a", "t", "e", "d", "_", "a", "t">>

\* The table name should_emit rejects (main.rs:51).
SQLX_MIGRATIONS ==
    <<"_", "s", "q", "l", "x", "_", "m", "i", "g", "r", "a", "t", "i", "o", "n", "s">>

USERS == <<"u", "s", "e", "r", "s">>

JOBS == <<"_", "j", "o", "b", "s">>

NAME == <<"n", "a", "m", "e">>

BIO == <<"b", "i", "o">>

\* Values of information_schema.columns.table_name in the model.
TableNames == {JOBS, SQLX_MIGRATIONS, USERS}

\* Their place in the order of ORDER BY table_name (bytewise, as for the
\* catalog's identifier type).
TableRank(table_name) ==
    CASE table_name = JOBS -> 1
      [] table_name = SQLX_MIGRATIONS -> 2
      [] table_name = USERS -> 3

\* Values of information_schema.columns.column_name in the model.
ColumnNames == {ID, CREATED_AT, NAME, BIO}

\* Values of information_schema.columns.data_type in the model: the ten
\* the program maps and two it does not.
DataTypes ==
    <<"integer", "bigint", "real", "text", "json", "uuid",
      "character varying", "timestamp with time zone", "boolean", "bytea",
      "USER-DEFINED", "numeric">>

\* Values of information_schema.columns.is_nullable.
Nullables == <<"NO", "YES">>

(* ------------------------- sequence helpers ---------------------------- *)

RECURSIVE Flatten(_)
Flatten(ss) == IF ss = <<>> THEN <<>> ELSE Head(ss) \o Flatten(Tail(ss))

\* Itertools::join: the pieces with sep between neighbours.
RECURSIVE Join(_, _)
Join(pieces, sep) ==
    IF pieces = <<>> THEN <<>>
    ELSE IF Len(pieces) = 1 THEN Head(pieces)
    ELSE Head(pieces) \o <<sep>> \o Join(Tail(pieces), sep)

Digit(d) == CASE d = 0 -> "0" [] d = 1 -> "1" [] d = 2 -> "2" [] d = 3 -> "3"
              [] d = 4 -> "4" [] d = 5 -> "5" [] d = 6 -> "6" [] d = 7 -> "7"
              [] d = 8 -> "8" [] d = 9 -> "9"

\* Display of an unsigned integer: its decimal digits, most significant first.
RECURSIVE ToDecimal(_)
ToDecimal(n) ==
    IF n < 10 THEN <<Digit(n)>> ELSE ToDecimal(n \div 10) \o <<Digit(n % 10)>>

(* ---------------------------- type mapper ------------------------------ *)

Supported(pg_type) ==
    pg_type \in {"integer", "bigint", "real", "text", "character varying",
                 "timestamp with time zone", "boolean", "bytea",
                 "USER-DEFINED", "numeric"}

\* pg_type_to_rs_type on a type it maps.
pg_type_to_rs_type(pg_type) ==
    CASE pg_type = "integer" -> "i32"
      [] pg_type = "bigint" -> "i64"
      [] pg_type = "real" -> "f32"
      [] pg_type = "text" -> "String"
      [] pg_type = "character varying" -> "String"
      [] pg_type = "timestamp with time zone" -> "chrono::DateTime<chrono::Utc>"
      [] pg_type = "boolean" -> "bool"
      [] pg_type = "bytea" -> "Vec<u8>"
      [] pg_type = "USER-DEFINED" -> "()"
      [] pg_type = "numeric" -> "bigdecimal::BigDecimal"

\* The message without the type.
PanicMessageBare(pg_type) == "Unknown type"

\* The message of the panic pg_type_to_rs_type raises on any other type.
PanicMessage(pg_type) == "Unknown type: " \o pg_type

(* ------------------------ identifier transformer ----------------------- *)

\* to_class_case comes from the inflector crate, whose code is not in this
\* repository; its result is kept as an uninterpreted application to the
\* table name.
to_class_case(table_name) == <<"to_class_case(">> \o table_name \o <<")">>

input_row_struct_name(table_name) == to_class_case(table_name) \o <<"InputRow">>

row_struct_name(table_name) == to_class_case(table_name) \o <<"Row">>

(* ------------------------------ emitters ------------------------------- *)

\* The columns other than id.
InsertColumnsButId(columns) == SelectSeq(columns, LAMBDA c : c[1] # ID)

\* add_insert_for_table, main.rs:67-70: the columns the statement inserts.
InsertColumns(columns) ==
    SelectSeq(columns, LAMBDA c : c[1] # ID /\ c[1] # CREATED_AT)

\* The names as they are, joined by ", ".
insert_name_list_bare(columns) ==
    Join([i \in 1..Len(columns) |-> columns[i][1]], ", ")

\* main.rs:71: each name between double quotes, joined by ", ".
insert_name_list(columns) ==
    Join([i \in 1..Len(columns) |-> <<"\"">> \o columns[i][1] \o <<"\"">>], ", ")

\* main.rs:72: each name after "row.", joined by ", ".
args_list(columns) ==
    Join([i \in 1..Len(columns) |-> <<"row.">> \o columns[i][1]], ", ")

\* The placeholders numbered from the zero-based position.
insert_placeholders_from_zero(columns) ==
    Join([i \in 1..Len(columns) |-> <<"$">> \o ToDecimal(i - 1)], ", ")

\* main.rs:73-77: "$" and the one-based position, joined by ", ".
insert_placeholders(columns) ==
    Join([i \in 1..Len(columns) |-> <<"$">> \o ToDecimal((i - 1) + 1)], ", ")

\* The literal pieces of the body's format string (main.rs:80-89).
BodyOpen == "\n    let result = sqlx::query_as!("

BodyInsertInto == ",\n        r#\"INSERT INTO "

BodyColumnsOpen == " ("

BodyValues == ")\n        VALUES ("

BodyReturning == ")\n        RETURNING *\"#,\n        "

BodyClose == "\n    )\n    .fetch_one(conn)\n    .await?;\n    Ok(result)"

\* main.rs:79-95: the body of the insert function.
InsertBody(table_name, columns) ==
    <<BodyOpen>> \o row_struct_name(table_name)
    \o <<BodyInsertInto>> \o table_name
    \o <<BodyColumnsOpen>> \o insert_name_list(columns)
    \o <<BodyValues>> \o insert_placeholders(columns)
    \o <<BodyReturning>> \o args_list(columns)
    \o <<BodyClose>>

\* add_insert_for_table: the function it adds to the scope.
InsertFn(table_name, columns) ==
    [kind |-> "fn",
     name |-> <<"insert_">> \o table_name,
     async |-> TRUE,
     vis |-> "pub",
     args |-> <<[name |-> "conn", ty |-> <<"&PgPool">>],
                [name |-> "row", ty |-> <<"&">> \o input_row_struct_name(table_name)]>>,
     ret |-> <<"Result<">> \o row_struct_name(table_name) \o <<", sqlx::Error>">>,
     body |-> InsertBody(table_name, InsertColumns(columns))]

\* The test turned around.
IsOptionWhenNo(is_option) == is_option = "NO"

\* main.rs:149: the test that makes a field optional.
IsOption(is_option) == is_option = "YES"

\* main.rs:148-153: the type of the field of one column.
FieldType(ty, is_option) ==
    IF IsOption(is_option)
    THEN "Option<" \o pg_type_to_rs_type(ty) \o ">"
    ELSE pg_type_to_rs_type(ty)

\* main.rs:145-156: (name, type) of every column, in column order.
TypedColumns(columns) ==
    [i \in 1..Len(columns) |->
        [name |-> columns[i][1], ty |-> FieldType(columns[i][2], columns[i][3])]]

\* main.rs:162 and main.rs:168: a field as handed to the struct.
Field(column) == [name |-> <<"pub ">> \o column.name, ty |-> column.ty]

\* main.rs:157-163: the full-row struct.
RowStruct(table_name, typed) ==
    [kind |-> "struct",
     name |-> row_struct_name(table_name),
     derives |-> <<"Debug", "Clone">>,
     vis |-> "pub",
     fields |-> [i \in 1..Len(typed) |-> Field(typed[i])]]

\* The columns other than id.
InputColumnsButId(typed) == SelectSeq(typed, LAMBDA c : c.name # ID)

\* main.rs:166-170: the columns that become fields of the input-row struct.
InputColumns(typed) ==
    SelectSeq(typed, LAMBDA c : c.name # ID /\ c.name # CREATED_AT)

\* main.rs:164-170: the input-row struct.
InputRowStruct(table_name, typed) ==
    LET kept == InputColumns(typed)
    IN  [kind |-> "struct",
         name |-> input_row_struct_name(table_name),
         derives |-> <<>>,
         vis |-> "pub",
         fields |-> [i \in 1..Len(kept) |-> Field(kept[i])]]

\* The columns on which the map of main.rs:145-156 panics.
Unmapped(columns) == SelectSeq(columns, LAMBDA c : ~Supported(c[2]))

(* ------------------------------- grouper ------------------------------- *)

\* main.rs:24: the key of group_by.
KeyOf(row) == row.table_name

\* Every row a group of its own.
RunLengthOne(rows) == 1

\* Length of the run of equal keys that starts rows (rows is not empty).
RECURSIVE RunLength(_)
RunLength(rows) ==
    IF Len(rows) = 1 \/ KeyOf(rows[2]) # KeyOf(rows[1])
    THEN 1
    ELSE 1 + RunLength(Tail(rows))

\* main.rs:33-41: a group's rows as (column_name, data_type, is_nullable).
columns_vec(rows) ==
    [i \in 1..Len(rows) |->
        <<rows[i].column_name, rows[i].data_type, rows[i].is_nullable>>]

\* No table rejected.
should_emit_all(table_name) == TRUE

\* main.rs:50-52.
should_emit(table_name) == table_name # SQLX_MIGRATIONS

(* --------------------------- catalog streams --------------------------- *)

\* The k-th way of giving types to a stream: row i gets the (k + i)-th data
\* type, taken cyclically, and the rows are by turns nullable and not.
DescriptorAt(k, i) ==
    [data_type |-> DataTypes[((k + i - 1) % Len(DataTypes)) + 1],
     is_nullable |-> Nullables[(i % Len(Nullables)) + 1]]

\* The ways of giving types to a stream.
Typings == 0..(Len(DataTypes) - 1)

\* The stream with the given table and column names, typed the k-th way.
Stream(tn, cn, k) ==
    [i \in 1..Len(tn) |->
        [table_name |-> tn[i], column_name |-> cn[i],
         data_type |-> DescriptorAt(k, i).data_type,
         is_nullable |-> DescriptorAt(k, i).is_nullable]]

\* What the query of main.rs:18 can return: the rows are ordered by table
\* name, and a table has a column name once.
IsCatalogOrder(rows) ==
    \A i, j \in 1..Len(rows) :
        i < j =>
            /\ TableRank(rows[i].table_name) <= TableRank(rows[j].table_name)
            /\ rows[i].table_name = rows[j].table_name =>
                   rows[i].column_name # rows[j].column_name

(* -------------------------------- driver ------------------------------- *)

NoGroup == [table_name |-> <<>>, columns |-> <<>>]

EmptyScope == [imports |-> <<>>, items |-> <<>>]

\* Scope::to_string: the imports, then the items in the order they were added.
ScopeToString(sc) == sc.imports \o sc.items

\* The line end println! writes after the text.
Newline == [kind |-> "newline"]

Init ==
    /\ pc = "start"
    /\ tables = <<>>
    /\ rest = <<>>
    /\ cur = NoGroup
    /\ groups = <<>>
    /\ scope = EmptyScope
    /\ stdout = <<>>
    /\ err = ""

\* do_it returns the error of a `?`; main's unwrap ends the process.
Fail(what) ==
    /\ pc' = "failed"
    /\ err' = what
    /\ UNCHANGED <<tables, rest, cur, groups, scope, stdout>>

\* main.rs:14.
GetEnv ==
    /\ pc = "start"
    /\ \/ pc' = "env" /\ UNCHANGED <<tables, rest, cur, groups, scope, stdout, err>>
       \/ Fail("VarError")

\* main.rs:15.
Connect ==
    /\ pc = "env"
    /\ \/ pc' = "connected" /\ UNCHANGED <<tables, rest, cur, groups, scope, stdout, err>>
       \/ Fail("sqlx::Error(connect)")

\* main.rs:17-26 on the rows the query returns.
Fetched(rows) ==
    /\ pc' = "loop"
    /\ tables' = rows
    /\ rest' = rows
    /\ scope' = [imports |-> <<[kind |-> "import", path |-> "sqlx", ty |-> "PgPool"]>>,
                 items |-> <<>>]
    /\ UNCHANGED <<cur, groups, stdout, err>>

\* main.rs:17-26.
FetchAll ==
    /\ pc = "connected"
    /\ \/ \E n \in 0..MaxRows :
            \E tn \in [1..n -> TableNames], cn \in [1..n -> ColumnNames], k \in Typings :
                IsCatalogOrder(Stream(tn, cn, k)) /\ Fetched(Stream(tn, cn, k))
       \/ Fail("sqlx::Error(query)")

\* main.rs:17-26 with the ordering of the rows left open.
FetchAllAny ==
    /\ pc = "connected"
    /\ \/ \E n \in 0..MaxRows :
            \E tn \in [1..n -> TableNames], cn \in [1..n -> ColumnNames] :
                Fetched(Stream(tn, cn, 0))
       \/ Fail("sqlx::Error(query)")

\* main.rs:27-41: the next group of the iterator; a rejected table is
\* dropped, any other has its columns collected.
NextGroup ==
    /\ pc = "loop"
    /\ rest # <<>>
    /\ LET n == RunLength(rest)
           table_name == KeyOf(rest[1])
           run == SubSeq(rest, 1, n)
       IN  /\ rest' = SubSeq(rest, n + 1, Len(rest))
           /\ groups' = Append(groups, [table_name |-> table_name, rows |-> run])
           /\ IF should_emit(table_name)
              THEN /\ cur' = [table_name |-> table_name, columns |-> columns_vec(run)]
                   /\ pc' = "structs"
              ELSE /\ cur' = cur
                   /\ pc' = "loop"
    /\ UNCHANGED <<tables, scope, stdout, err>>

\* main.rs:42, add_structs_for_table (main.rs:140-171).
AddStructs ==
    /\ pc = "structs"
    /\ IF Unmapped(cur.columns) # <<>>
       THEN /\ pc' = "panicked"
            /\ err' = PanicMessage(Unmapped(cur.columns)[1][2])
            /\ scope' = scope
       ELSE /\ pc' = "insert"
            /\ err' = err
            /\ scope' = [scope EXCEPT !.items =
                   @ \o <<RowStruct(cur.table_name, TypedColumns(cur.columns)),
                          InputRowStruct(cur.table_name, TypedColumns(cur.columns))>>]
    /\ UNCHANGED <<tables, rest, cur, groups, stdout>>

\* main.rs:43, add_insert_for_table (main.rs:54-97).
AddInsert ==
    /\ pc = "insert"
    /\ scope' = [scope EXCEPT !.items = Append(@, InsertFn(cur.table_name, cur.columns))]
    /\ pc' = "loop"
    /\ UNCHANGED <<tables, rest, cur, groups, stdout, err>>

\* The loop ends as soon as it may.
LoopDoneEarly == TRUE

\* main.rs:27: the for loop ends when the iterator has no group left.
LoopDone == rest = <<>>

\* main.rs:46-47.
PrintScope ==
    /\ pc = "loop"
    /\ LoopDone
    /\ stdout' = Append(stdout, ScopeToString(scope) \o <<Newline>>)
    /\ pc' = "done"
    /\ UNCHANGED <<tables, rest, cur, groups, scope, err>>

Next == GetEnv \/ Connect \/ FetchAll \/ NextGroup \/ AddStructs \/ AddInsert \/ PrintScope

Spec == Init /\ [][Next]_vars

NextAny == GetEnv \/ Connect \/ FetchAllAny \/ NextGroup \/ AddStructs \/ AddInsert \/ PrintScope

SpecAny == Init /\ [][NextAny]_vars

(* ------------------------ reading emitted text ------------------------- *)

\* Position of the first element of s equal to tok, 0 when there is none.
RECURSIVE IndexOf(_, _)
IndexOf(s, tok) ==
    IF s = <<>> THEN 0
    ELSE IF Head(s) = tok THEN 1
    ELSE LET r == IndexOf(Tail(s), tok) IN IF r = 0 THEN 0 ELSE r + 1

\* The text between the literal pieces open and close.
Between(s, open, close) ==
    LET a == IndexOf(s, open)
        t == SubSeq(s, a + 1, Len(s))
        b == IndexOf(t, close)
    IN  SubSeq(t, 1, b - 1)

\* The items of a list written with sep between them; no item for no text.
RECURSIVE Split(_, _)
Split(s, sep) ==
    IF s = <<>> THEN <<>>
    ELSE LET i == IndexOf(s, sep)
         IN  IF i = 0 THEN <<s>>
             ELSE <<SubSeq(s, 1, i - 1)>> \o Split(SubSeq(s, i + 1, Len(s)), sep)

\* The number a sequence of decimal digits writes.
RECURSIVE ParseNat(_)
ParseNat(ds) ==
    IF Len(ds) = 1 THEN CHOOSE d \in 0..9 : Digit(d) = ds[1]
    ELSE 10 * ParseNat(SubSeq(ds, 1, Len(ds) - 1))
         + (CHOOSE d \in 0..9 : Digit(d) = ds[Len(ds)])

\* An SQL identifier without the double quotes around it, if it has them.
Unquoted(s) ==
    IF Len(s) >= 2 /\ s[1] = "\"" /\ s[Len(s)] = "\""
    THEN SubSeq(s, 2, Len(s) - 1)
    ELSE s

\* The names of the columns other than id and created_at, in column order.
RECURSIVE InsertableNames(_)
InsertableNames(columns) ==
    IF columns = <<>> THEN <<>>
    ELSE (IF Head(columns)[1] \in {ID, CREATED_AT} THEN <<>> ELSE <<Head(columns)[1]>>)
         \o InsertableNames(Tail(columns))

\* The last group got past add_insert_for_table: its three items end the scope.
Emitted == pc \in {"loop", "done"} /\ cur # NoGroup

LastItem(back) == scope.items[Len(scope.items) - back]

SqlTable == Between(LastItem(0).body, BodyInsertInto, BodyColumnsOpen)

SqlColumns == Split(Between(LastItem(0).body, BodyColumnsOpen, BodyValues), ", ")

SqlPlaceholders == Split(Between(LastItem(0).body, BodyValues, BodyReturning), ", ")

SqlArguments == Split(Between(LastItem(0).body, BodyReturning, BodyClose), ", ")

(* -------------------------------- claims ------------------------------- *)

\* C1: the INSERT statement add_insert_for_table emits for a table has as
\* many placeholders as the table has columns other than id and created_at,
\* the placeholders are $1..$n in this order, and the Nth name of the column
\* list and the Nth argument row.<col> both name the Nth such column.
C1_InsertPositions ==
    Emitted =>
        LET want == InsertableNames(cur.columns)
            n == Len(want)
        IN  /\ Len(SqlPlaceholders) = n
            /\ Len(SqlColumns) = n
            /\ Len(SqlArguments) = n
            /\ \A N \in 1..n :
                  /\ Head(SqlPlaceholders[N]) = "$"
                  /\ ParseNat(Tail(SqlPlaceholders[N])) = N
                  /\ Unquoted(SqlColumns[N]) = want[N]
                  /\ SqlArguments[N] = <<"row.">> \o want[N]

\* C1 witness: a table with an insertable column on each side of an
\* excluded one has been given its insert function.
C1_Witness ==
    /\ Emitted
    /\ Len(cur.columns) = 3
    /\ cur.columns[2][1] \in {ID, CREATED_AT}
    /\ Len(InsertableNames(cur.columns)) = 2

\* add_structs_for_table has just run on cur: its two structs end the scope.
StructsAdded == pc = "insert"

\* A field list without the fields named id and created_at.
RECURSIVE WithoutExcluded(_)
WithoutExcluded(fields) ==
    IF fields = <<>> THEN <<>>
    ELSE (IF Head(fields).name \in {<<"pub ">> \o ID, <<"pub ">> \o CREATED_AT}
          THEN <<>> ELSE <<Head(fields)>>)
         \o WithoutExcluded(Tail(fields))

\* C2: the input-row struct's field list (names and types, in order) is the
\* full-row struct's field list without the fields named id and created_at,
\* and the full-row struct has one field per column, in column order.
C2_InputRowFields ==
    StructsAdded =>
        /\ LastItem(0).fields = WithoutExcluded(LastItem(1).fields)
        /\ Len(LastItem(1).fields) = Len(cur.columns)
        /\ \A i \in 1..Len(cur.columns) :
              LastItem(1).fields[i].name = <<"pub ">> \o cur.columns[i][1]

\* C2 witness: the structs of a three-column table with id first and
\* created_at last have been added.
C2_Witness ==
    /\ StructsAdded
    /\ Len(cur.columns) = 3
    /\ cur.columns[1][1] = ID
    /\ cur.columns[3][1] = CREATED_AT
    /\ Len(LastItem(0).fields) = 1

\* The target type the type table documents for a supported source type.
DocumentedType(source_type) ==
    CASE source_type = "integer" -> "i32"
      [] source_type = "bigint" -> "i64"
      [] source_type = "real" -> "f32"
      [] source_type \in {"text", "character varying"} -> "String"
      [] source_type = "timestamp with time zone" -> "chrono::DateTime<chrono::Utc>"
      [] source_type = "boolean" -> "bool"
      [] source_type = "bytea" -> "Vec<u8>"
      [] source_type = "numeric" -> "bigdecimal::BigDecimal"
      [] source_type = "USER-DEFINED" -> "()"

\* C4: the field of a non-nullable column of a supported type has the
\* documented target type, the field of a nullable one has that type inside
\* exactly one Option<...>, and a column is nullable exactly when the
\* catalog says YES.
C4_FieldTypes ==
    StructsAdded =>
        \A i \in 1..Len(cur.columns) :
            LastItem(1).fields[i].ty =
                IF cur.columns[i][3] = "YES"
                THEN "Option<" \o DocumentedType(cur.columns[i][2]) \o ">"
                ELSE DocumentedType(cur.columns[i][2])

\* C4 witness: a table with a nullable and a non-nullable column, of
\* different types, has its structs.
C4_Witness ==
    /\ StructsAdded
    /\ \E i, j \in 1..Len(cur.columns) :
          /\ cur.columns[i][3] = "YES"
          /\ cur.columns[j][3] = "NO"
          /\ LastItem(1).fields[i].ty = "Option<Vec<u8>>"
          /\ LastItem(1).fields[j].ty = "bool"

\* The name of a field without the visibility written in front of it.
FieldColumn(f) == Tail(f.name)

\* C9: the column names of the insert function's SQL column list and of its
\* bound arguments are the field names of the input-row struct, in the same
\* order, and no name is bound twice.
C9_SameExclusion ==
    Emitted =>
        LET fields == LastItem(1).fields
        IN  /\ Len(SqlColumns) = Len(fields)
            /\ Len(SqlArguments) = Len(fields)
            /\ \A i \in 1..Len(fields) :
                  /\ Head(fields[i].name) = "pub "
                  /\ Unquoted(SqlColumns[i]) = FieldColumn(fields[i])
                  /\ Head(SqlArguments[i]) = "row."
                  /\ Tail(SqlArguments[i]) = FieldColumn(fields[i])
            /\ \A i, j \in 1..Len(SqlArguments) :
                  SqlArguments[i] = SqlArguments[j] => i = j

\* C9 witness: an emitted table with both excluded columns and two others.
C9_Witness ==
    /\ Emitted
    /\ Len(cur.columns) = 3
    /\ cur.columns[1][1] = CREATED_AT
    /\ Len(LastItem(1).fields) = 2
    /\ Len(LastItem(2).fields) = 3

\* C8 as claimed: in the SQL text the table name and every insertable column
\* name stand as read from the catalog, with no quoting character added.
C8_Verbatim ==
    Emitted =>
        /\ SqlTable = cur.table_name
        /\ SqlColumns = InsertableNames(cur.columns)

\* C8 amended: the table name stands as read from the catalog, and every
\* insertable column name stands, itself unchanged, between two double
\* quotes.
C8_ColumnsQuoted ==
    Emitted =>
        LET want == InsertableNames(cur.columns)
        IN  /\ SqlTable = cur.table_name
            /\ Len(SqlColumns) = Len(want)
            /\ \A i \in 1..Len(want) :
                  SqlColumns[i] = <<"\"">> \o want[i] \o <<"\"">>

\* C8 witness: an insert function with two columns in its column list.
C8_Witness ==
    /\ Emitted
    /\ Len(SqlColumns) = 2
    /\ cur.table_name = USERS

\* The source types of the mapping table.
MappedTypes ==
    {"integer", "bigint", "real", "text", "character varying",
     "timestamp with time zone", "boolean", "bytea", "numeric", "USER-DEFINED"}

\* The rows of the stream whose type is outside the mapping table.
UnmappedRows == SelectSeq(tables, LAMBDA r : r.data_type \notin MappedTypes)

\* Those of them that belong to a table other than _sqlx_migrations.
UnmappedEmittedRows ==
    SelectSeq(UnmappedRows, LAMBDA r : r.table_name # SQLX_MIGRATIONS)

\* C3 as claimed: a run whose stream has a column of a type outside the
\* mapping table does not complete and writes nothing to standard output.
C3_AnyUnmappedFails ==
    UnmappedRows # <<>> => pc # "done" /\ stdout = <<>>

\* C3 amended: when a column of a table other than _sqlx_migrations has a
\* type outside the mapping table, the loop never comes to its end, the run
\* never completes, nothing is written to standard output, and the panic
\* that ends the run carries the type of the first such column.
C3_UnmappedEmittedFails ==
    UnmappedEmittedRows # <<>> =>
        /\ pc # "done"
        /\ ~(pc = "loop" /\ rest = <<>>)
        /\ stdout = <<>>
        /\ pc = "panicked" => err = "Unknown type: " \o UnmappedEmittedRows[1].data_type

\* C3 witness: the run has ended in the panic, on the second of two
\* unmapped types, the first being a column of _sqlx_migrations.
C3_Witness ==
    /\ pc = "panicked"
    /\ Len(UnmappedRows) = 2
    /\ Len(UnmappedEmittedRows) = 1
    /\ err = "Unknown type: uuid"

\* C5: the groups the loop is given are the maximal runs of equal table
\* name of the stream, in stream order, each with its rows in stream order,
\* and the columns collected for a group are its rows' columns in order.
C5_RunLengthGrouping ==
    /\ Flatten([g \in 1..Len(groups) |-> groups[g].rows]) \o rest = tables
    /\ \A g \in 1..Len(groups) :
          /\ groups[g].rows # <<>>
          /\ \A i \in 1..Len(groups[g].rows) :
                groups[g].rows[i].table_name = groups[g].table_name
    /\ \A g \in 1..(Len(groups) - 1) :
          groups[g].table_name # groups[g + 1].table_name
    /\ groups # <<>> /\ rest # <<>> =>
          rest[1].table_name # groups[Len(groups)].table_name
    /\ pc \in {"structs", "insert"} =>
          LET last == groups[Len(groups)]
          IN  /\ cur.table_name = last.table_name
              /\ Len(cur.columns) = Len(last.rows)
              /\ \A i \in 1..Len(last.rows) :
                    cur.columns[i] = <<last.rows[i].column_name,
                                       last.rows[i].data_type,
                                       last.rows[i].is_nullable>>

\* C5 witness: a stream t1, t2, t1 has given three groups.
C5_Witness ==
    /\ Len(tables) = 3
    /\ tables[1].table_name = tables[3].table_name
    /\ tables[1].table_name # tables[2].table_name
    /\ Len(groups) = 3
    /\ pc = "done"

\* The number of groups of a table name in the stream.
GroupCount(table_name) ==
    Cardinality({i \in 1..Len(tables) :
        /\ tables[i].table_name = table_name
        /\ i = 1 \/ tables[i - 1].table_name # table_name})

\* The number of items of a kind and a name in a rendered scope.
ItemCount(items, kind, name) ==
    Cardinality({i \in 1..Len(items) :
        items[i].kind = kind /\ items[i].name = name})

\* Whether a struct or function of the table is among the items.
Mentions(items, table_name) ==
    \E i \in 1..Len(items) :
        \/ /\ items[i].kind = "struct"
           /\ items[i].name \in {row_struct_name(table_name),
                                  input_row_struct_name(table_name)}
        \/ /\ items[i].kind = "fn"
           /\ \/ items[i].name = <<"insert_">> \o table_name
              \/ Between(items[i].body, BodyInsertInto, BodyColumnsOpen) = table_name

\* C6: no struct and no insert function of _sqlx_migrations is ever in the
\* scope or in the output, and the output of a run has, for every group of
\* another table, one full-row struct, one input-row struct and one insert
\* function.
C6_Denylist ==
    /\ ~Mentions(scope.items, SQLX_MIGRATIONS)
    /\ pc = "done" =>
          /\ Len(stdout) = 1
          /\ ~Mentions(SelectSeq(stdout[1], LAMBDA x : x.kind \in {"struct", "fn"}),
                       SQLX_MIGRATIONS)
          /\ \A t \in TableNames \ {SQLX_MIGRATIONS} :
                LET items == SelectSeq(stdout[1], LAMBDA x : x.kind \in {"struct", "fn"})
                IN  /\ ItemCount(items, "struct", row_struct_name(t)) = GroupCount(t)
                    /\ ItemCount(items, "struct", input_row_struct_name(t)) = GroupCount(t)
                    /\ ItemCount(items, "fn", <<"insert_">> \o t) = GroupCount(t)

\* C6 witness: a run over _sqlx_migrations between two other tables has
\* written its output.
C6_Witness ==
    /\ pc = "done"
    /\ Len(groups) = 3
    /\ groups[2].table_name = SQLX_MIGRATIONS
    /\ Len(stdout) = 1

\* The place of a step in the order of a run.
StepRank(p) ==
    CASE p = "start" -> 0
      [] p = "env" -> 1
      [] p = "connected" -> 2
      [] p \in {"loop", "structs", "insert"} -> 3
      [] p \in {"done", "failed", "panicked"} -> 4

\* C10: a run goes from the connection string to the connection, to the
\* schema read, to the groups, each taken through both emitters before the
\* next is begun, and to the output; the output is written at most once,
\* after the last group; a run that fails has written nothing.
C10_Order ==
    [][/\ StepRank(pc') >= StepRank(pc)
       /\ pc' # pc \/ pc = "loop"
       /\ pc = "start" => pc' \in {"env", "failed"}
       /\ pc = "env" => pc' \in {"connected", "failed"}
       /\ pc = "connected" => pc' \in {"loop", "failed"}
       /\ tables' # tables => pc = "connected"
       /\ scope' # scope => pc \in {"connected", "structs", "insert"}
       /\ groups' # groups => pc = "loop"
       /\ pc = "structs" => pc' \in {"insert", "panicked"}
       /\ pc = "insert" => pc' = "loop"
       /\ stdout' # stdout =>
             /\ stdout = <<>>
             /\ Len(stdout') = 1
             /\ pc = "loop" /\ pc' = "done"
             /\ Flatten([g \in 1..Len(groups) |-> groups[g].rows]) = tables
             /\ stdout'[1] = scope.imports \o scope.items \o <<Newline>>
       /\ pc' = "done" => stdout' # stdout
       /\ pc' \in {"failed", "panicked"} => stdout' = <<>>]_vars

\* C10 witness: a run over two emitted groups has written its output.
C10_Witness ==
    /\ pc = "done"
    /\ Len(groups) = 2
    /\ Len(scope.items) = 6
    /\ Len(stdout) = 1

=============================================================================
